---------------------------- MODULE Spec2Model ----------------------------
(*************************************************************************)
(* Model of cirq-core/cirq/contrib/qpic/qpic_diagram.py: the conversion   *)
(* of a circuit into QPIC diagram text.                                   *)
(*                                                                        *)
(* A Python str is a sequence of one-character strings, so that           *)
(* translate, split, replace, join, strip and upper are computed          *)
(* character by character as the code computes them.  A qubit is an       *)
(* integer (its comparison key, which is what the default qubit order     *)
(* sorts by); str(qubit) is looked up in the function qstr.               *)
(*                                                                        *)
(* A behaviour is one call of one of the module's four functions: Init    *)
(* draws the function and its arguments, the actions are the function's   *)
(* steps, and pc ends in "returned" or "raised".                          *)
(*************************************************************************)
EXTENDS Integers, Sequences, FiniteSets, TLC

VARIABLES call, pc, name, op, qubit_order, qstr, circuit, kwargs,
          qubits, names, labels, declarations, operations, preamble, result

args == <<call, name, op, qubit_order, qstr, circuit, kwargs>>
locals == <<qubits, names, labels, declarations, operations, preamble>>
vars == <<call, pc, name, op, qubit_order, qstr, circuit, kwargs,
          qubits, names, labels, declarations, operations, preamble, result>>

(*************************************************************************)
(* Bounds of the model.                                                   *)
(*************************************************************************)
NumQubits == 3
MaxNameLen == 3
MaxLatexLen == 4
MaxMoments == 2
MaxMacros == 2

Qubits == 1..NumQubits

(*************************************************************************)
(* Python str and list primitives.                                        *)
(*************************************************************************)
Range(s) == {s[i] : i \in 1..Len(s)}

Whitespace == {" ", "\t", "\n", "\r", "\f"}

\* sep.join(parts)
RECURSIVE Join(_, _)
Join(parts, sep) ==
    IF parts = <<>> THEN <<>>
    ELSE IF Len(parts) = 1 THEN parts[1]
    ELSE parts[1] \o sep \o Join(Tail(parts), sep)

RECURSIVE LStrip(_)
LStrip(s) ==
    IF s # <<>> /\ s[1] \in Whitespace THEN LStrip(Tail(s)) ELSE s

RECURSIVE RStrip(_)
RStrip(s) ==
    IF s # <<>> /\ s[Len(s)] \in Whitespace
    THEN RStrip(SubSeq(s, 1, Len(s) - 1)) ELSE s

\* s.strip()
Strip(s) == RStrip(LStrip(s))

\* s.translate(str.maketrans("", "", chars)), s.replace(c, '') for c in chars
Delete(s, chars) == SelectSeq(s, LAMBDA c : c \notin chars)

Digit(d) == <<"0", "1", "2", "3", "4", "5", "6", "7", "8", "9">>[d + 1]

\* str(n) for a natural number n
RECURSIVE IntToStr(_)
IntToStr(n) ==
    IF n < 10 THEN <<Digit(n)>> ELSE IntToStr(n \div 10) \o <<Digit(n % 10)>>

UpperOf ==
    [c \in {"a", "d", "e", "h", "i", "l", "p", "r", "t", "v", "w", "c"} |->
        CASE c = "a" -> "A" [] c = "d" -> "D" [] c = "e" -> "E"
          [] c = "h" -> "H" [] c = "i" -> "I" [] c = "l" -> "L"
          [] c = "p" -> "P" [] c = "r" -> "R" [] c = "t" -> "T"
          [] c = "v" -> "V" [] c = "w" -> "W" [] c = "c" -> "C"]

\* s.upper()
Upper(s) == [i \in 1..Len(s) |-> IF s[i] \in DOMAIN UpperOf THEN UpperOf[s[i]] ELSE s[i]]

\* all sequences over S of length at most n
RECURSIVE SeqsUpTo(_, _)
SeqsUpTo(S, n) ==
    IF n = 0 THEN {<<>>}
    ELSE LET shorter == SeqsUpTo(S, n - 1)
         IN  shorter \cup {Append(s, c) : s \in shorter, c \in S}

Reverse(s) == [i \in 1..Len(s) |-> s[Len(s) + 1 - i]]

IsInjective(s) == \A i, j \in 1..Len(s) : s[i] = s[j] => i = j

\* the outcome of a call: a returned value, or an exception
Return(v) == [ok |-> TRUE, val |-> v]

Raise == [ok |-> FALSE, val |-> <<>>]

\* the values of a sequence of outcomes
Vals(rs) == [i \in 1..Len(rs) |-> rs[i].val]

AllOk(rs) == \A i \in 1..Len(rs) : rs[i].ok

(*************************************************************************)
(* qpic_qubit_namer                                                       *)
(*************************************************************************)
forbidden_symbols == {"\\", "#", "$", "{", "}", "%", "=", "@", "\"", ":", ";"}

\* variant: the sign is looked for before the forbidden characters are removed
qpic_qubit_namer_SignFirst(display) ==
    LET stripped == Delete(display, forbidden_symbols)
    IN  IF stripped = <<>> THEN Raise
        ELSE IF display[1] = "-"
             THEN Return(<<"m", "i", "n", "u", "s", "_">> \o Tail(stripped))
        ELSE IF display[1] = "+"
             THEN Return(<<"p", "l", "u", "s", "_">> \o Tail(stripped))
        ELSE Return(stripped)

\* variant: an empty name is passed through instead of raising
qpic_qubit_namer_EmptyOk(display) ==
    LET stripped == Delete(display, forbidden_symbols)
    IN  IF stripped = <<>> THEN Return(<<>>)
        ELSE IF stripped[1] = "-"
             THEN Return(<<"m", "i", "n", "u", "s", "_">> \o Tail(stripped))
        ELSE IF stripped[1] = "+"
             THEN Return(<<"p", "l", "u", "s", "_">> \o Tail(stripped))
        ELSE Return(stripped)

\* name[0] raises IndexError on the empty string
qpic_qubit_namer(display) ==
    LET stripped == Delete(display, forbidden_symbols)
    IN  IF stripped = <<>> THEN Raise
        ELSE IF stripped[1] = "-"
             THEN Return(<<"m", "i", "n", "u", "s", "_">> \o Tail(stripped))
        ELSE IF stripped[1] = "+"
             THEN Return(<<"p", "l", "u", "s", "_">> \o Tail(stripped))
        ELSE Return(stripped)

(*************************************************************************)
(* get_latex_name                                                         *)
(*                                                                        *)
(* An operation is [gate, gate_str, op_str, qubits]: gate is the tag the  *)
(* match statement of op_to_qpic compares ("None" when the operation has  *)
(* no gate), gate_str is str(op.gate), op_str is str(op).                 *)
(*************************************************************************)
\* '**' in s
HasPow(s) == \E i \in 1..(Len(s) - 1) : s[i] = "*" /\ s[i + 1] = "*"

\* position of the first '**' of s
FirstPow(s) ==
    CHOOSE i \in 1..(Len(s) - 1) :
        /\ s[i] = "*" /\ s[i + 1] = "*"
        /\ \A j \in 1..(i - 1) : ~(s[j] = "*" /\ s[j + 1] = "*")

get_latex_name(o) ==
    LET str == IF o.gate # "None" THEN o.gate_str ELSE o.op_str
    IN  IF HasPow(str)
        THEN LET i == FirstPow(str)
                 base == SubSeq(str, 1, i - 1)
                 exponent == SubSeq(str, i + 2, Len(str))
             IN  <<"$">> \o base \o <<"^", "{">> \o exponent \o <<"}", "$">>
        ELSE str

(*************************************************************************)
(* The qubit order (cirq.QubitOrder, an external collaborator).  An order *)
(* is [kind, fixed]: kind "default" sorts the qubits it is given (an      *)
(* operation on (b, a, c) is drawn 'a b c' in test_fallback_diagram);     *)
(* kind "explicit" returns its whole fixed list, which is why op_to_qpic  *)
(* filters what it gets back, and cannot order a qubit that is not in the *)
(* list.  Operations hold distinct qubits.                                *)
(*************************************************************************)
RECURSIVE SortedSeq(_)
SortedSeq(S) ==
    IF S = {} THEN <<>>
    ELSE LET m == CHOOSE x \in S : \A y \in S : x <= y
         IN  <<m>> \o SortedSeq(S \ {m})

DEFAULT == [kind |-> "default", fixed |-> <<>>]

explicit(fixed) == [kind |-> "explicit", fixed |-> fixed]

default_order_for(qs) == Return(SortedSeq(qs))

explicit_order_for(fixed, qs) ==
    IF qs \subseteq Range(fixed) THEN Return(fixed) ELSE Raise

\* qubit_order.order_for(qs)
order_for(order, qs) ==
    IF order.kind = "default" THEN default_order_for(qs)
    ELSE explicit_order_for(order.fixed, qs)

(*************************************************************************)
(* op_to_qpic                                                             *)
(*************************************************************************)
FixedGates == {"X", "Z", "H", "CNOT", "CZ", "SWAP", "TOFFOLI", "MeasurementGate"}

op_symbol(o) ==
    CASE o.gate = "X" -> <<"X">>
      [] o.gate = "Z" -> <<"Z">>
      [] o.gate = "H" -> <<"H">>
      [] o.gate = "CNOT" -> <<"C">>
      [] o.gate = "CZ" -> <<>>
      [] o.gate = "SWAP" -> <<"S", "W", "A", "P">>
      [] o.gate = "TOFFOLI" -> <<"T">>
      [] o.gate = "MeasurementGate" -> <<"M">>
      [] OTHER -> <<"G", " ">> \o get_latex_name(o)

\* variant: CNOT draws its first qubit as the target
op_targets_FirstQubit(o) ==
    CASE o.gate = "CNOT" -> <<o.qubits[1]>>
      [] o.gate = "CZ" -> <<>>
      [] o.gate = "TOFFOLI" -> <<o.qubits[3]>>
      [] OTHER -> o.qubits

op_targets(o) ==
    CASE o.gate = "CNOT" -> <<o.qubits[2]>>
      [] o.gate = "CZ" -> <<>>
      [] o.gate = "TOFFOLI" -> <<o.qubits[3]>>
      [] OTHER -> o.qubits

op_controls(o) ==
    CASE o.gate = "CNOT" -> <<o.qubits[1]>>
      [] o.gate = "CZ" -> o.qubits
      [] o.gate = "TOFFOLI" -> SubSeq(o.qubits, 1, 2)
      [] OTHER -> <<>>

effective_len(o) == Len(Delete(get_latex_name(o), {"$", "^", "{", "}"}))

\* variant: the width hint is given from effective length 1 on
op_arguments_FromOne(o) ==
    IF o.gate \notin FixedGates /\ effective_len(o) >= 1
    THEN << <<(<<"w", "i", "d", "t", "h">>), effective_len(o) * 6>> >>
    ELSE <<>>

\* the arguments dict, as a sequence of <<key, value>> in insertion order
op_arguments(o) ==
    IF o.gate \notin FixedGates /\ effective_len(o) > 1
    THEN << <<(<<"w", "i", "d", "t", "h">>), effective_len(o) * 6>> >>
    ELSE <<>>

\* variant: the output of the order is not filtered
Reordered_Unfiltered(order, qs) == order_for(order, Range(qs))

\* variant: the qubits keep the order the operation holds them in
Reordered_OwnOrder(order, qs) ==
    IF order_for(order, Range(qs)).ok THEN Return(qs) ELSE Raise

\* variant: the qubits are listed against the order
Reordered_Backwards(order, qs) ==
    LET ordered == order_for(order, Range(qs))
    IN  IF ordered.ok
        THEN Return(Reverse(SelectSeq(ordered.val, LAMBDA q : q \in Range(qs))))
        ELSE Raise

\* [q for q in qubit_order.order_for(qs) if q in qs]
Reordered(order, qs) ==
    LET ordered == order_for(order, Range(qs))
    IN  IF ordered.ok
        THEN Return(SelectSeq(ordered.val, LAMBDA q : q \in Range(qs)))
        ELSE Raise

RECURSIVE AppendArguments(_, _)
AppendArguments(command, arguments) ==
    IF arguments = <<>> THEN command
    ELSE AppendArguments(
             command \o <<" ">> \o arguments[1][1] \o <<"=">> \o IntToStr(arguments[1][2]),
             Tail(arguments))

op_to_qpic(o, order, display) ==
    LET ts == Reordered(order, op_targets(o))
        targets == [i \in 1..Len(ts.val) |-> qpic_qubit_namer(display[ts.val[i]])]
        cs == Reordered(order, op_controls(o))
        controls == [i \in 1..Len(cs.val) |-> qpic_qubit_namer(display[cs.val[i]])]
        command == Strip(Join(Vals(targets), <<" ">>) \o <<" ">> \o op_symbol(o)
                            \o <<" ">> \o Join(Vals(controls), <<" ">>))
    IN  IF ts.ok /\ AllOk(targets) /\ cs.ok /\ AllOk(controls)
        THEN Return(AppendArguments(command, op_arguments(o)))
        ELSE Raise

(*************************************************************************)
(* circuit_to_qpic_lang, step by step.                                    *)
(*                                                                        *)
(* A circuit is a sequence of moments, a moment a sequence of operations. *)
(* kwargs is a sequence of [key, kind, b, n, s] in insertion order: kind  *)
(* says whether the value is the bool b, the int n or the str s.          *)
(*************************************************************************)
RECURSIVE Flatten(_)
Flatten(seqs) ==
    IF seqs = <<>> THEN <<>> ELSE seqs[1] \o Flatten(Tail(seqs))

\* circuit.all_qubits()
all_qubits(c) == UNION {Range(o.qubits) : o \in Range(Flatten(c))}

\* variant: the operations without qubits are kept
non_global_ops_Unfiltered(c) == Flatten(c)

\* the loop of lines 159-161
non_global_ops(c) == SelectSeq(Flatten(c), LAMBDA o : o.qubits # <<>>)

\* f'{value}'
Format(kw) == IF kw.kind = "int" THEN IntToStr(kw.n) ELSE kw.s

\* variant: a boolean is formatted like any other value
RECURSIVE PreambleLines_NoBool(_)
PreambleLines_NoBool(kws) ==
    IF kws = <<>> THEN <<>>
    ELSE LET kw == kws[1]
             value == IF kw.kind = "bool"
                      THEN IF kw.b THEN <<"T", "r", "u", "e">>
                           ELSE <<"F", "a", "l", "s", "e">>
                      ELSE Format(kw)
         IN  << Upper(kw.key) \o <<" ">> \o value >> \o PreambleLines_NoBool(Tail(kws))

\* the loop of lines 166-172
RECURSIVE PreambleLines(_)
PreambleLines(kws) ==
    IF kws = <<>> THEN <<>>
    ELSE LET kw == kws[1]
             line == IF kw.kind = "bool"
                     THEN IF kw.b THEN << Upper(kw.key) >> ELSE <<>>
                     ELSE << Upper(kw.key) \o <<" ">> \o Format(kw) >>
         IN  line \o PreambleLines(Tail(kws))

ResolveOrder ==
    /\ call = "circuit_to_qpic_lang" /\ pc = "call"
    /\ LET ordered == order_for(qubit_order, all_qubits(circuit))
       IN  IF ordered.ok
           THEN pc' = "name" /\ qubits' = ordered.val
           ELSE pc' = "raised" /\ UNCHANGED qubits
    /\ UNCHANGED <<args, names, labels, declarations, operations, preamble, result>>

NameQubits ==
    /\ pc = "name"
    /\ LET named == [i \in 1..Len(qubits) |-> qpic_qubit_namer(qstr[qubits[i]])]
       IN  IF AllOk(named)
           THEN /\ pc' = "declare"
                /\ names' = Vals(named)
                /\ labels' = [i \in 1..Len(qubits) |-> qstr[qubits[i]]]
           ELSE /\ pc' = "raised"
                /\ UNCHANGED <<names, labels>>
    /\ UNCHANGED <<args, qubits, declarations, operations, preamble, result>>

\* variant: the display name is written before the sanitized name
Declare_LabelFirst ==
    /\ pc = "declare"
    /\ declarations' =
           Join([i \in 1..Len(names) |-> labels[i] \o <<" ", "W", " ">> \o names[i]],
                <<"\n">>)
    /\ pc' = "operations"
    /\ UNCHANGED <<args, qubits, names, labels, operations, preamble, result>>

Declare ==
    /\ pc = "declare"
    /\ declarations' =
           Join([i \in 1..Len(names) |-> names[i] \o <<" ", "W", " ">> \o labels[i]],
                <<"\n">>)
    /\ pc' = "operations"
    /\ UNCHANGED <<args, qubits, names, labels, operations, preamble, result>>

RenderOperations ==
    /\ pc = "operations"
    /\ LET ops == non_global_ops(circuit)
           rendered == [i \in 1..Len(ops) |-> op_to_qpic(ops[i], qubit_order, qstr)]
       IN  IF AllOk(rendered)
           THEN pc' = "preamble" /\ operations' = Join(Vals(rendered), <<"\n">>)
           ELSE pc' = "raised" /\ UNCHANGED operations
    /\ UNCHANGED <<args, qubits, names, labels, declarations, preamble, result>>

BuildPreamble ==
    /\ pc = "preamble"
    /\ preamble' = Join(PreambleLines(kwargs), <<"\n">>)
    /\ pc' = "assemble"
    /\ UNCHANGED <<args, qubits, names, labels, declarations, operations, result>>

Assemble ==
    /\ pc = "assemble"
    /\ LET parts == SelectSeq(<<preamble, declarations, operations>>,
                              LAMBDA p : p # <<>>)
       IN  result' = Join(parts, <<"\n">>)
    /\ pc' = "returned"
    /\ UNCHANGED <<args, locals>>

(*************************************************************************)
(* Direct calls of the three helpers.                                     *)
(*************************************************************************)
QubitNamer ==
    /\ call = "qpic_qubit_namer" /\ pc = "call"
    /\ LET r == qpic_qubit_namer(name)
       IN  IF r.ok
           THEN pc' = "returned" /\ result' = r.val
           ELSE pc' = "raised" /\ UNCHANGED result
    /\ UNCHANGED <<args, locals>>

GetLatexName ==
    /\ call = "get_latex_name" /\ pc = "call"
    /\ result' = get_latex_name(op)
    /\ pc' = "returned"
    /\ UNCHANGED <<args, locals>>

OpToQpic ==
    /\ call = "op_to_qpic" /\ pc = "call"
    /\ LET r == op_to_qpic(op, qubit_order, qstr)
       IN  IF r.ok
           THEN pc' = "returned" /\ result' = r.val
           ELSE pc' = "raised" /\ UNCHANGED result
    /\ UNCHANGED <<args, locals>>

(*************************************************************************)
(* The arguments a call is made with.                                     *)
(*************************************************************************)
NameAlphabet == forbidden_symbols \cup {"q", "-", "+"}

LatexAlphabet == {"X", "*", "$", "2"}

\* str(qubit) of the qubits: a window of DisplayMenu, starting at k
DisplayMenu ==
    << <<"a">>, <<"-", "b">>, <<"q", "_", "{", "1", "}">>, <<"$">>,
       <<"+", "c">>, <<"a", ":">> >>

Display(k) == [q \in Qubits |-> DisplayMenu[((q + k - 1) % Len(DisplayMenu)) + 1]]

Displays == {Display(k) : k \in 0..(Len(DisplayMenu) - 1)}

OpStr == <<"o", "p">>

GateOp(g, qs) == [gate |-> g, gate_str |-> <<g>>, op_str |-> OpStr, qubits |-> qs]

\* an operation of a gate outside the fixed table, whose str is s
OtherOp(s, qs) == [gate |-> "other", gate_str |-> s, op_str |-> OpStr, qubits |-> qs]

\* an operation without a gate, whose own str is s
GatelessOp(s, qs) == [gate |-> "None", gate_str |-> <<>>, op_str |-> s, qubits |-> qs]

\* the sequences of n distinct qubits
QubitTuples(n) == {qs \in [1..n -> Qubits] : IsInjective(qs)}

MaxArity == 3

AnyArity == UNION {QubitTuples(n) : n \in 1..MaxArity}

FallbackStrs ==
    { <<"Y">>, <<"R", "x">>, <<"X", "*", "*", "0", ".", "5">>, <<"$">>,
      <<"a", "=", "b">> }

Ops ==
    {GateOp(g, qs) : g \in {"X", "Z", "H"}, qs \in QubitTuples(1)}
    \cup {GateOp(g, qs) : g \in {"CNOT", "CZ", "SWAP"}, qs \in QubitTuples(2)}
    \cup {GateOp("TOFFOLI", qs) : qs \in QubitTuples(3)}
    \cup {GateOp("MeasurementGate", qs) : qs \in AnyArity}
    \cup {OtherOp(s, qs) : s \in FallbackStrs, qs \in AnyArity \cup {<<>>}}
    \cup {GatelessOp(s, qs) : s \in {<<"Y">>, <<"O", "p">>}, qs \in AnyArity}

\* QubitOrder.DEFAULT and the explicit orders over all or all but one qubit
Orders ==
    {DEFAULT} \cup
    {explicit(qs) : qs \in QubitTuples(NumQubits) \cup QubitTuples(NumQubits - 1)}

GlobalOp == OtherOp(<<"p", "h">>, <<>>)

MomentMenu ==
    { << GateOp("X", <<1>>) >>,
      << GateOp("CNOT", <<3, 1>>), GlobalOp >>,
      << OtherOp(<<"Y">>, <<2>>), GateOp("Z", <<1>>) >>,
      << OtherOp(<<"X", "*", "*", "0", ".", "5">>, <<3, 1, 2>>) >>,
      << GateOp("CZ", <<2, 1>>), GateOp("MeasurementGate", <<3>>) >>,
      << GlobalOp >>,
      << GateOp("TOFFOLI", <<3, 2, 1>>) >> }

Circuits == SeqsUpTo(MomentMenu, MaxMoments)

EmitOrders ==
    { DEFAULT, explicit(SortedSeq(Qubits)), explicit(Reverse(SortedSeq(Qubits))),
      explicit(<<3, 1, 2>>), explicit(<<2, 1>>), explicit(<<>>) }

BoolArg(k, v) == [key |-> k, kind |-> "bool", b |-> v, n |-> 0, s |-> <<>>]
IntArg(k, v) == [key |-> k, kind |-> "int", b |-> FALSE, n |-> v, s |-> <<>>]
StrArg(k, v) == [key |-> k, kind |-> "str", b |-> FALSE, n |-> 0, s |-> v]

MacroMenu ==
    { BoolArg(<<"v", "e", "r", "t", "i", "c", "a", "l">>, TRUE),
      BoolArg(<<"v", "e", "r", "t", "i", "c", "a", "l">>, FALSE),
      BoolArg(<<"h", "i", "d", "e">>, FALSE),
      IntArg(<<"w", "i", "r", "e", "p", "a", "d">>, 10),
      StrArg(<<"h", "e", "a", "d", "e", "r">>, <<"T", " ", "D">>) }

\* keyword arguments: the keys are distinct
KwargsSet ==
    {kws \in SeqsUpTo(MacroMenu, MaxMacros) :
        \A i, j \in 1..Len(kws) : kws[i].key = kws[j].key => i = j}

NoOp == GateOp("X", <<1>>)

InitLocals ==
    /\ pc = "call"
    /\ qubits = <<>> /\ names = <<>> /\ labels = <<>>
    /\ declarations = <<>> /\ operations = <<>> /\ preamble = <<>>
    /\ result = <<>>

InitNamer ==
    /\ call = "qpic_qubit_namer"
    /\ name \in SeqsUpTo(NameAlphabet, MaxNameLen)
    /\ op = NoOp /\ qubit_order = DEFAULT /\ qstr = Display(0)
    /\ circuit = <<>> /\ kwargs = <<>>

InitLatex ==
    /\ call = "get_latex_name"
    /\ \E s \in SeqsUpTo(LatexAlphabet, MaxLatexLen) :
           op \in {OtherOp(s, <<1>>), GatelessOp(s, <<1>>)}
    /\ name = <<>> /\ qubit_order = DEFAULT /\ qstr = Display(0)
    /\ circuit = <<>> /\ kwargs = <<>>

InitOp ==
    /\ call = "op_to_qpic"
    /\ op \in Ops
    /\ qubit_order \in Orders
    /\ qstr \in Displays
    /\ name = <<>> /\ circuit = <<>> /\ kwargs = <<>>

InitEmit ==
    /\ call = "circuit_to_qpic_lang"
    /\ \/ /\ circuit \in Circuits
          /\ qubit_order \in EmitOrders
          /\ qstr \in {Display(0), Display(1), Display(5)}
          /\ kwargs \in {<<>>, << IntArg(<<"w", "i", "r", "e", "p", "a", "d">>, 10) >>}
       \/ /\ circuit \in {<<>>, << <<GlobalOp>> >>, << <<GateOp("X", <<1>>)>> >>}
          /\ qubit_order \in {DEFAULT, explicit(<<>>), explicit(<<1>>)}
          /\ qstr = Display(0)
          /\ kwargs \in KwargsSet
    /\ name = <<>> /\ op = NoOp

Init ==
    /\ InitLocals
    /\ \/ InitNamer
       \/ InitLatex
       \/ InitOp
       \/ InitEmit

Next ==
    \/ QubitNamer
    \/ GetLatexName
    \/ OpToQpic
    \/ ResolveOrder
    \/ NameQubits
    \/ Declare
    \/ RenderOperations
    \/ BuildPreamble
    \/ Assemble

Spec == Init /\ [][Next]_vars

(*************************************************************************)
(* Vocabulary of the properties.                                          *)
(*************************************************************************)
\* s.split(c): the pieces of s between the occurrences of the character c
RECURSIVE Split(_, _)
Split(s, c) ==
    IF \A i \in 1..Len(s) : s[i] # c THEN <<s>>
    ELSE LET i == CHOOSE k \in 1..Len(s) : s[k] = c /\ \A j \in 1..(k - 1) : s[j] # c
         IN  <<SubSeq(s, 1, i - 1)>> \o Split(SubSeq(s, i + 1, Len(s)), c)

\* the lines of a text; the empty text has none
TextLines(t) == IF t = <<>> THEN <<>> ELSE Split(t, "\n")

Count(s, x) == Cardinality({i \in 1..Len(s) : s[i] = x})

SameBag(s, t) ==
    /\ Len(s) = Len(t)
    /\ \A x \in Range(s) \cup Range(t) : Count(s, x) = Count(t, x)

Position(s, x) == CHOOSE i \in 1..Len(s) : s[i] = x

\* the qubits of the set S, in the relative order they have in the list fixed
ByPosition(S, fixed) ==
    CHOOSE s \in QubitTuples(Cardinality(S)) :
        /\ Range(s) = S
        /\ \A i, j \in 1..Len(s) : i < j => Position(fixed, s[i]) < Position(fixed, s[j])

\* the qubits of the set S, in ascending order
Ascending(S) ==
    CHOOSE s \in QubitTuples(Cardinality(S)) :
        /\ Range(s) = S
        /\ \A i, j \in 1..Len(s) : i < j => s[i] < s[j]

Token(q) == qpic_qubit_namer(qstr[q]).val

Tokens(qs) == [i \in 1..Len(qs) |-> Token(qs[i])]

ForbiddenChars == {"\\", "#", "$", "{", "}", "%", "=", "@", "\"", ":", ";"}

RECURSIVE Kept(_)
Kept(s) ==
    IF s = <<>> THEN <<>>
    ELSE (IF s[1] \in ForbiddenChars THEN <<>> ELSE <<s[1]>>) \o Kept(Tail(s))

Returned(f) == call = f /\ pc = "returned"

Finished(f) == call = f /\ pc \in {"returned", "raised"}

\* the row of the fixed table an operation falls in
TableRow(o) ==
    CASE o.gate \in {"X", "Z", "H"} ->
            [symbol |-> <<o.gate>>, targets |-> o.qubits, controls |-> <<>>]
      [] o.gate = "SWAP" ->
            [symbol |-> <<"S", "W", "A", "P">>, targets |-> o.qubits, controls |-> <<>>]
      [] o.gate = "MeasurementGate" ->
            [symbol |-> <<"M">>, targets |-> o.qubits, controls |-> <<>>]
      [] o.gate = "CNOT" ->
            [symbol |-> <<"C">>, targets |-> <<o.qubits[2]>>, controls |-> <<o.qubits[1]>>]
      [] o.gate = "CZ" ->
            [symbol |-> <<>>, targets |-> <<>>, controls |-> o.qubits]
      [] o.gate = "TOFFOLI" ->
            [symbol |-> <<"T">>, targets |-> <<o.qubits[3]>>,
             controls |-> <<o.qubits[1], o.qubits[2]>>]
      [] OTHER ->
            [symbol |-> <<"G", " ">> \o get_latex_name(o), targets |-> o.qubits,
             controls |-> <<>>]

SymbolTokens(o) ==
    IF TableRow(o).symbol = <<>> THEN <<>> ELSE Split(TableRow(o).symbol, " ")

\* the space-separated tokens of an operation line: targets, symbol, controls, rest
TargetPart(o, line) == SubSeq(Split(line, " "), 1, Len(TableRow(o).targets))

SymbolPart(o, line) ==
    SubSeq(Split(line, " "), Len(TableRow(o).targets) + 1,
           Len(TableRow(o).targets) + Len(SymbolTokens(o)))

ControlPart(o, line) ==
    SubSeq(Split(line, " "), Len(TableRow(o).targets) + Len(SymbolTokens(o)) + 1,
           Len(TableRow(o).targets) + Len(SymbolTokens(o)) + Len(TableRow(o).controls))

\* line has a token for every target, symbol word and control
HasAllParts(o, line) ==
    Len(Split(line, " "))
        >= Len(TableRow(o).targets) + Len(SymbolTokens(o)) + Len(TableRow(o).controls)

RestPart(o, line) ==
    SubSeq(Split(line, " "),
           Len(TableRow(o).targets) + Len(SymbolTokens(o)) + Len(TableRow(o).controls) + 1,
           Len(Split(line, " ")))

(*************************************************************************)
(* C1: for every operation with at least one qubit, the line of           *)
(* op_to_qpic is the tokens of the operation's targets, then the symbol,  *)
(* then the tokens of its controls, separated by single spaces with no    *)
(* space at either end, where symbol, targets and controls are those of   *)
(* the operation's row of the fixed table; at most a width hint follows.  *)
(* A CZ on (a, -b) renders as 'a minus_b'.                                *)
(*************************************************************************)
C1_SymbolTable ==
    (Returned("op_to_qpic") /\ op.qubits # <<>>) =>
        /\ HasAllParts(op, result)
        /\ SameBag(TargetPart(op, result), Tokens(TableRow(op).targets))
        /\ SymbolPart(op, result) = SymbolTokens(op)
        /\ SameBag(ControlPart(op, result), Tokens(TableRow(op).controls))
        /\ Len(RestPart(op, result)) <= 1
        /\ (op = GateOp("CZ", <<1, 2>>) /\ qstr = Display(0) /\ qubit_order = DEFAULT)
               => result = <<"a", " ", "m", "i", "n", "u", "s", "_", "b">>

C1_Witness ==
    /\ Returned("op_to_qpic")
    /\ op = GateOp("TOFFOLI", <<3, 1, 2>>)
    /\ qstr = Display(0)
    /\ qubit_order = DEFAULT
    /\ result = <<"m", "i", "n", "u", "s", "_", "b", " ", "T", " ", "a", " ", "q", "_", "1">>

(*************************************************************************)
(* C3: under an explicit qubit order, the target tokens of the line of    *)
(* op_to_qpic are the operation's target qubits, each once, in the        *)
(* relative order of the explicit order, and likewise the control tokens; *)
(* no other qubit of the order appears.  CNOT(control = 1, target = 2)    *)
(* under the explicit order [1, 2] renders as '<token of 2> C <token of   *)
(* 1>'.                                                                   *)
(*************************************************************************)
C3_ExplicitOrder ==
    (Returned("op_to_qpic") /\ qubit_order.kind = "explicit") =>
        /\ HasAllParts(op, result)
        /\ TargetPart(op, result)
               = Tokens(ByPosition(Range(TableRow(op).targets), qubit_order.fixed))
        /\ SymbolPart(op, result) = SymbolTokens(op)
        /\ ControlPart(op, result)
               = Tokens(ByPosition(Range(TableRow(op).controls), qubit_order.fixed))
        /\ Len(RestPart(op, result)) <= 1
        /\ (op = GateOp("CNOT", <<1, 2>>) /\ qubit_order = explicit(<<1, 2>>)
                /\ qstr = Display(0))
               => result = <<"m", "i", "n", "u", "s", "_", "b", " ", "C", " ", "a">>

C3_Witness ==
    /\ Returned("op_to_qpic")
    /\ op = GateOp("MeasurementGate", <<3, 1, 2>>)
    /\ qubit_order = explicit(<<2, 3, 1>>)
    /\ qstr = Display(0)
    /\ result = <<"m", "i", "n", "u", "s", "_", "b", " ", "q", "_", "1", " ", "a", " ", "M">>

(*************************************************************************)
(* C6: when the display name keeps at least one character after the       *)
(* forbidden characters are removed, qpic_qubit_namer returns the kept    *)
(* characters in order, with a leading '-' replaced by 'minus_' and       *)
(* otherwise a leading '+' replaced by 'plus_'; the result holds no       *)
(* forbidden character.                                                   *)
(*************************************************************************)
C6_Sanitized ==
    (Finished("qpic_qubit_namer") /\ Kept(name) # <<>>) =>
        /\ pc = "returned"
        /\ \A i \in 1..Len(result) : result[i] \notin ForbiddenChars
        /\ result = IF Kept(name)[1] = "-"
                    THEN <<"m", "i", "n", "u", "s", "_">> \o Tail(Kept(name))
                    ELSE IF Kept(name)[1] = "+"
                    THEN <<"p", "l", "u", "s", "_">> \o Tail(Kept(name))
                    ELSE Kept(name)
        /\ name = <<"-", "q">> => result = <<"m", "i", "n", "u", "s", "_", "q">>
        /\ name = <<"+", "q">> => result = <<"p", "l", "u", "s", "_", "q">>
        /\ name = <<"q", "{", "}">> => result = <<"q">>
        /\ name = <<"q", "\\", "-">> => result = <<"q", "-">>

C6_Witness ==
    /\ Returned("qpic_qubit_namer")
    /\ name = <<"$", "-", "q">>
    /\ result = <<"m", "i", "n", "u", "s", "_", "q">>

(*************************************************************************)
(* Vocabulary of the properties of circuit_to_qpic_lang.                  *)
(*************************************************************************)
Emit == "circuit_to_qpic_lang"

\* the qubits some operation of the circuit acts on
CircuitQubits ==
    {q \in Qubits : \E m \in 1..Len(circuit) : \E k \in 1..Len(circuit[m]) :
                        q \in Range(circuit[m][k].qubits)}

\* the order resolved against the circuit's qubits
Resolved ==
    IF qubit_order.kind = "explicit" THEN qubit_order.fixed
    ELSE Ascending(CircuitQubits)

\* the operations with at least one qubit, moment by moment from moment m on
RECURSIVE QubitOpsFrom(_)
QubitOpsFrom(m) ==
    IF m > Len(circuit) THEN <<>>
    ELSE SelectSeq(circuit[m], LAMBDA o : Len(o.qubits) >= 1) \o QubitOpsFrom(m + 1)

QubitOps == QubitOpsFrom(1)

\* the macro arguments that give a preamble line, by position
EmittingArgs ==
    SelectSeq([i \in 1..Len(kwargs) |-> i],
              LAMBDA i : ~(kwargs[i].kind = "bool" /\ kwargs[i].b = FALSE))

NumFalse == Cardinality({i \in 1..Len(kwargs) : kwargs[i].kind = "bool" /\ ~kwargs[i].b})

PreambleLine(kw) ==
    IF kw.kind = "bool" THEN Upper(kw.key)
    ELSE Upper(kw.key) \o <<" ">> \o (IF kw.kind = "int" THEN IntToStr(kw.n) ELSE kw.s)

NumP == Len(EmittingArgs)
NumD == Len(Resolved)
NumO == Len(QubitOps)

\* the lines of the returned text, by section
PreambleText(i) == TextLines(result)[i]
DeclarationText(k) == TextLines(result)[NumP + k]
OperationText(i) == TextLines(result)[NumP + NumD + i]

DeclarationLine(q) == Token(q) \o <<" ", "W", " ">> \o qstr[q]

VERTICAL == <<"v", "e", "r", "t", "i", "c", "a", "l">>
WIREPAD == <<"w", "i", "r", "e", "p", "a", "d">>

(*************************************************************************)
(* C2: the returned text is the preamble lines, then one declaration      *)
(* line per qubit of the resolved order, then one line per operation with *)
(* at least one qubit, moment by moment and in each moment's order; it     *)
(* has no empty line (so no leading, trailing or doubled newline) and is  *)
(* empty when the three sections are.                                     *)
(*************************************************************************)
C2_TextLayout ==
    Returned(Emit) =>
        /\ Len(TextLines(result)) = NumP + NumD + NumO
        /\ \A i \in 1..NumP : PreambleText(i) = PreambleLine(kwargs[EmittingArgs[i]])
        /\ \A k \in 1..NumD : DeclarationText(k) = DeclarationLine(Resolved[k])
        /\ \A i \in 1..NumO :
               OperationText(i) = op_to_qpic(QubitOps[i], qubit_order, qstr).val
        /\ \A i \in 1..Len(TextLines(result)) : TextLines(result)[i] # <<>>
        /\ NumP + NumD + NumO = 0 => result = <<>>

C2_Witness ==
    /\ Returned(Emit)
    /\ Len(circuit) = 2
    /\ circuit[1] = << GateOp("CNOT", <<3, 1>>), GlobalOp >>
    /\ Len(circuit[2]) = 2
    /\ kwargs # <<>>
    /\ Len(TextLines(result)) = 1 + 3 + 3

(*************************************************************************)
(* C4 as stated: under the default order every operation line lists the   *)
(* operation's targets, and its controls, in the order the operation      *)
(* holds them.                                                            *)
(*************************************************************************)
C4_OwnOrderKept ==
    (Returned(Emit) /\ qubit_order = DEFAULT) =>
        \A i \in 1..NumO :
            /\ HasAllParts(QubitOps[i], OperationText(i))
            /\ TargetPart(QubitOps[i], OperationText(i))
                   = Tokens(TableRow(QubitOps[i]).targets)
            /\ ControlPart(QubitOps[i], OperationText(i))
                   = Tokens(TableRow(QubitOps[i]).controls)

(*************************************************************************)
(* C4 amended: under the default order every operation line lists the     *)
(* operation's targets, and its controls, in ascending qubit order (the   *)
(* order of the wire declarations), whatever order the operation holds    *)
(* them in: a fallback gate applied to (3, 1, 2) lists the tokens of      *)
(* 1, 2, 3.                                                               *)
(*************************************************************************)
C4_DefaultOrderSorts ==
    /\ (Returned(Emit) /\ qubit_order = DEFAULT) =>
           \A i \in 1..NumO :
               /\ HasAllParts(QubitOps[i], OperationText(i))
               /\ TargetPart(QubitOps[i], OperationText(i))
                      = Tokens(Ascending(Range(TableRow(QubitOps[i]).targets)))
               /\ ControlPart(QubitOps[i], OperationText(i))
                      = Tokens(Ascending(Range(TableRow(QubitOps[i]).controls)))
    /\ (Returned("op_to_qpic") /\ qubit_order = DEFAULT) =>
           /\ HasAllParts(op, result)
           /\ TargetPart(op, result) = Tokens(Ascending(Range(TableRow(op).targets)))
           /\ ControlPart(op, result) = Tokens(Ascending(Range(TableRow(op).controls)))

C4_Witness ==
    /\ Returned(Emit)
    /\ qubit_order = DEFAULT
    /\ qstr = Display(0)
    /\ circuit = << << OtherOp(<<"X", "*", "*", "0", ".", "5">>, <<3, 1, 2>>) >> >>
    /\ TargetPart(QubitOps[1], OperationText(1))
           = << <<"a">>, <<"m", "i", "n", "u", "s", "_", "b">>, <<"q", "_", "1">> >>

(*************************************************************************)
(* C5: the preamble has, in argument order, one line per macro argument   *)
(* that is True (the upper-cased key) or not a boolean (the upper-cased   *)
(* key, a space, the value), and none for a False argument.               *)
(*************************************************************************)
C5_Preamble ==
    Returned(Emit) =>
        /\ NumP = Len(kwargs) - NumFalse
        /\ Len(TextLines(result)) >= NumP
        /\ Len(TextLines(preamble)) = NumP
        /\ \A i \in 1..NumP :
               /\ TextLines(preamble)[i] = PreambleLine(kwargs[EmittingArgs[i]])
               /\ PreambleText(i) = TextLines(preamble)[i]
        /\ kwargs = << BoolArg(VERTICAL, TRUE) >>
               => TextLines(preamble) = << <<"V", "E", "R", "T", "I", "C", "A", "L">> >>
        /\ kwargs = << BoolArg(VERTICAL, FALSE) >> => preamble = <<>>
        /\ kwargs = << IntArg(WIREPAD, 10) >>
               => TextLines(preamble)
                      = << <<"W", "I", "R", "E", "P", "A", "D", " ", "1", "0">> >>

C5_Witness ==
    /\ Returned(Emit)
    /\ kwargs = << BoolArg(VERTICAL, FALSE), IntArg(WIREPAD, 10) >>
    /\ circuit = << << GateOp("X", <<1>>) >> >>
    /\ PreambleText(1) = <<"W", "I", "R", "E", "P", "A", "D", " ", "1", "0">>
    /\ Len(TextLines(result)) = 3

(*************************************************************************)
(* Vocabulary of the width hint.                                          *)
(*************************************************************************)
Digits == {"0", "1", "2", "3", "4", "5", "6", "7", "8", "9"}

DigitValue(c) == CHOOSE d \in 0..9 : Digit(d) = c

RECURSIVE ParseInt(_)
ParseInt(s) ==
    IF s = <<>> THEN 0
    ELSE 10 * ParseInt(SubSeq(s, 1, Len(s) - 1)) + DigitValue(s[Len(s)])

WidthKey == <<" ", "w", "i", "d", "t", "h", "=">>

\* the positions where line ends with ' width=' and then digits only
WidthAt(line) ==
    {i \in 1..(Len(line) - Len(WidthKey)) :
        /\ SubSeq(line, i, i + Len(WidthKey) - 1) = WidthKey
        /\ \A j \in (i + Len(WidthKey))..Len(line) : line[j] \in Digits}

HasWidth(line) == WidthAt(line) # {}

WidthOf(line) ==
    ParseInt(SubSeq(line, (CHOOSE i \in WidthAt(line) : TRUE) + Len(WidthKey), Len(line)))

\* the display name the fallback branch renders
DisplayName(o) == IF o.gate = "None" THEN o.op_str ELSE o.gate_str

\* the rendered name: rewritten around the first '**' when there is one
RenderedName(o) ==
    IF \E i \in 1..(Len(DisplayName(o)) - 1) :
           SubSeq(DisplayName(o), i, i + 1) = <<"*", "*">>
    THEN LET i == CHOOSE k \in 1..(Len(DisplayName(o)) - 1) :
                      /\ SubSeq(DisplayName(o), k, k + 1) = <<"*", "*">>
                      /\ \A j \in 1..(k - 1) : SubSeq(DisplayName(o), j, j + 1) # <<"*", "*">>
         IN  <<"$">> \o SubSeq(DisplayName(o), 1, i - 1) \o <<"^", "{">>
                 \o SubSeq(DisplayName(o), i + 2, Len(DisplayName(o))) \o <<"}", "$">>
    ELSE DisplayName(o)

EffectiveLength(o) ==
    Cardinality({i \in 1..Len(RenderedName(o)) :
                    RenderedName(o)[i] \notin {"$", "^", "{", "}"}})

IsFallback(o) ==
    o.gate \notin {"X", "Z", "H", "CNOT", "CZ", "SWAP", "TOFFOLI", "MeasurementGate"}

(*************************************************************************)
(* C7: get_latex_name gives the display name, rewritten to                *)
(* '$base^{exponent}$' around its first '**'; the line of op_to_qpic ends *)
(* with ' width=<n>' exactly when the operation is in the fallback branch *)
(* and the effective length of that name exceeds 1, and then              *)
(* n = 6 * effective length.                                              *)
(*************************************************************************)
C7_WidthHint ==
    /\ Returned("get_latex_name") =>
           /\ result = RenderedName(op)
           /\ DisplayName(op) = <<"X", "*", "*", "2">>
                  => result = <<"$", "X", "^", "{", "2", "}", "$">>
           /\ DisplayName(op) = <<"*", "*", "*", "*">>
                  => result = <<"$", "^", "{", "*", "*", "}", "$">>
    /\ Returned("op_to_qpic") =>
           /\ HasWidth(result) <=> (IsFallback(op) /\ EffectiveLength(op) > 1)
           /\ HasWidth(result) => WidthOf(result) = 6 * EffectiveLength(op)
           /\ (IsFallback(op) /\ DisplayName(op) = <<"Y">>) => ~HasWidth(result)
           /\ (IsFallback(op) /\ DisplayName(op) = <<"X", "*", "*", "0", ".", "5">>)
                  => WidthOf(result) = 24

C7_Witness ==
    /\ Returned("op_to_qpic")
    /\ op = OtherOp(<<"X", "*", "*", "0", ".", "5">>, <<1>>)
    /\ qstr = Display(0)
    /\ result = <<"a", " ", "G", " ", "$", "X", "^", "{", "0", ".", "5", "}", "$",
                  " ", "w", "i", "d", "t", "h", "=", "2", "4">>

(*************************************************************************)
(* C8: the declaration section has one line per qubit of the resolved     *)
(* order, in that order, and the k-th line is the k-th qubit's sanitized  *)
(* name, ' W ', and its display name.  A single X on a qubit named 'a'    *)
(* gives exactly 'a W a' and 'a X'.                                       *)
(*************************************************************************)
C8_Declarations ==
    Returned(Emit) =>
        /\ Len(TextLines(declarations)) = NumD
        /\ Len(TextLines(result)) >= NumP + NumD
        /\ \A k \in 1..NumD :
               /\ TextLines(declarations)[k]
                      = Token(Resolved[k]) \o <<" ", "W", " ">> \o qstr[Resolved[k]]
               /\ DeclarationText(k) = TextLines(declarations)[k]
        /\ (circuit = << << GateOp("X", <<1>>) >> >> /\ qubit_order = DEFAULT
                /\ qstr = Display(0) /\ kwargs = <<>>)
               => result = <<"a", " ", "W", " ", "a", "\n", "a", " ", "X">>

C8_Witness ==
    /\ Returned(Emit)
    /\ qubit_order = explicit(<<3, 1, 2>>)
    /\ qstr = Display(0)
    /\ circuit = << << GateOp("X", <<1>>) >> >>
    /\ kwargs = <<>>
    /\ DeclarationText(1) = <<"q", "_", "1", " ", "W", " ", "q", "_", "{", "1", "}">>
    /\ DeclarationText(3) = <<"m", "i", "n", "u", "s", "_", "b", " ", "W", " ", "-", "b">>

(*************************************************************************)
(* C9: circuit_to_qpic_lang ends in an error, with no text, exactly when  *)
(* the explicit order misses a qubit of the circuit or a qubit of the     *)
(* resolved order has a display name that is empty once the forbidden     *)
(* characters are removed; otherwise it returns the complete text.  No    *)
(* text exists before the call returns.                                   *)
(*************************************************************************)
Unresolvable ==
    qubit_order.kind = "explicit" /\ \E q \in CircuitQubits : q \notin Range(qubit_order.fixed)

EmptyName == \E k \in 1..Len(Resolved) : Kept(qstr[Resolved[k]]) = <<>>

C9_NoPartialText ==
    call = Emit =>
        /\ pc # "returned" => result = <<>>
        /\ pc \in {"returned", "raised"} => (pc = "raised" <=> (Unresolvable \/ EmptyName))
        /\ pc = "returned" => Len(TextLines(result)) = NumP + NumD + NumO

C9_Witness ==
    /\ call = Emit
    /\ pc = "raised"
    /\ ~Unresolvable
    /\ EmptyName
    /\ circuit # <<>>
    /\ kwargs # <<>>

(*************************************************************************)
(* C10: in the returned text every target or control token of an          *)
(* operation line is the token of a declaration line, which comes earlier *)
(* in the text, and the targets of a line, and likewise its controls, are *)
(* in the relative order of their declaration lines.                      *)
(*************************************************************************)
DeclaredToken(k) == Split(DeclarationText(k), " ")[1]

\* part lists tokens of declaration lines, in the order of those lines
InDeclarationOrder(part) ==
    \E f \in [1..Len(part) -> 1..NumD] :
        /\ \A i, j \in 1..Len(part) : i < j => f[i] < f[j]
        /\ \A i \in 1..Len(part) : DeclaredToken(f[i]) = part[i]

C10_DeclareBeforeUse ==
    Returned(Emit) =>
        \A i \in 1..NumO :
            /\ HasAllParts(QubitOps[i], OperationText(i))
            /\ InDeclarationOrder(TargetPart(QubitOps[i], OperationText(i)))
            /\ InDeclarationOrder(ControlPart(QubitOps[i], OperationText(i)))

C10_Witness ==
    /\ Returned(Emit)
    /\ qubit_order = explicit(<<3, 2, 1>>)
    /\ qstr = Display(0)
    /\ Len(circuit) = 2
    /\ circuit[1] = << GateOp("TOFFOLI", <<3, 2, 1>>) >>
    /\ circuit[2] = << OtherOp(<<"X", "*", "*", "0", ".", "5">>, <<3, 1, 2>>) >>
    /\ ControlPart(QubitOps[1], OperationText(1))
           = << <<"q", "_", "1">>, <<"m", "i", "n", "u", "s", "_", "b">> >>

=============================================================================
